---- MODULE Spec2Model ----
(***************************************************************************)
(* Model of the card-game engine of src/myenv/card_game_env.py             *)
(* (class CardGameEnv, the 16-action engine).                              *)
(*                                                                         *)
(* Rewards and the score are Python floats that only ever take the values  *)
(* -0.1, 0.0 and 1000.0 * 2^z.  They are modelled as integers counted in   *)
(* tenths: -1 is -0.1 and 10000 is 1000.0.                                 *)
(*                                                                         *)
(* Python lists are 0-indexed; hand and stack are TLA+ sequences, so the   *)
(* Python expression hand[i] is hand[i + 1] here.                          *)
(***************************************************************************)
EXTENDS Integers, Sequences, FiniteSets, TLC

\* --- constants of card_game_env.py ---------------------------------------
MAX_CARD_VALUE == 5
HAND_SIZE == 4
HOLD_SIZE == 1
MAX_TURNS == 20
MAX_MERGES_PER_TURN == 2
MERGE_LIMIT_VALUE == 4
CARD_TYPES == 0..MAX_CARD_VALUE

ACTION_PLAY_HAND_OFFSET == 0
ACTION_PLAY_HOLD == HAND_SIZE
ACTION_MERGE_OFFSET == HAND_SIZE + HOLD_SIZE
NUM_MERGE_COMBINATIONS == (HAND_SIZE * (HAND_SIZE - 1)) \div 2
ACTION_HOLD_CARD_OFFSET == ACTION_MERGE_OFFSET + NUM_MERGE_COMBINATIONS
ACTION_CLEAR_STACK == ACTION_HOLD_CARD_OFFSET + HAND_SIZE
NUM_ACTIONS == ACTION_CLEAR_STACK + 1

\* rewards, in tenths
REWARD_FULL_CHAIN == 10000
REWARD_ZERO_MULTIPLIER == 2
PENALTY_INVALID_ACTION == -1

\* the sentinel of an empty hold slot / unset next card
NO_CARD == -1

\* --- bounds of the model --------------------------------------------------
\* The draw policy is random.  After a deal the model follows every draw
\* sequence in which the lowest rank (a card the policy can always return) is
\* drawn any number of times and a wildcard 0 or a 5 at most MaxVaried times;
\* the ranks 2..4 enter the hand through the deal and through merges.  An
\* episode is stepped while current_turn <= TurnCap.
MaxVaried == 1
TurnCap == 1
\* The end of an episode is followed from turn MAX_TURNS on (see InitLate),
\* for LateTurns turns past MAX_TURNS.
LateTurns == 1
LowestRank == CHOOSE c \in 1..MAX_CARD_VALUE : \A d \in 1..MAX_CARD_VALUE : c <= d
SpecialCards == {0, MAX_CARD_VALUE}

\* The deals <<hand, next_card>> the model follows.
Deals ==
    { << <<1, 2, 3, 4>>, 5 >>, << <<0, 1, 2, 3>>, 4 >>,
      << <<4, 4, 1, 1>>, 1 >>, << <<5, 5, 0, 0>>, 1 >> }

\* the action ids a driver submits: the 16 declared ones and one on each side
ActionIds == (0 - 1)..NUM_ACTIONS

\* the seeds a driver passes to reset(seed=...); NoSeed is seed=None
Seeds == {"seed_a", "seed_b"}
NoSeed == "none"

\* no deal recorded yet
NoDeal == <<>>

\* no call of _is_valid_play recorded
NoCheck == <<>>

\* The handler coroutines of the GameServer that are followed between their
\* awaits at a time (a 'start', 'next' or 'auto:start' handler, or an
\* auto_play_loop task); 'reset' and 'auto:stop' write before their first
\* await and run next to them.
MaxTasks == 1
Tasks == 1..MaxTasks

\* a slot no coroutine occupies
FreeTask == [pc |-> "free", kind |-> "none", action |-> 0 - 1, term |-> FALSE]

\* GameServer.__init__: running and auto_play are False, nothing runs, no
\* env.step call has been made
ServerIdle ==
    [ running |-> FALSE,
      auto_play |-> FALSE,
      tasks |-> [t \in Tasks |-> FreeTask],
      checked |-> NoCheck ]

\* _is_valid_play is applied to every stack of at most MaxStackLen cards
MaxStackLen == 2

\* A second instance of CardGameEnv is followed through its reset and through
\* OtherSteps of its steps that draw a card.
OtherSteps == 1

VARIABLES
    hand,                       \* self.hand
    hold_slot,                  \* self.hold_slot
    next_card,                  \* self.next_card
    stack,                      \* self.stack
    current_turn,               \* self.current_turn
    merges_this_turn,           \* self.merges_this_turn
    score,                      \* self.score (tenths)
    last_clear_is_full_chain,   \* self._last_clear_is_full_chain
    last_clear_stacked_zeros,   \* self._last_clear_stacked_zeros
    reward,                     \* the reward returned by the last step (tenths)
    terminated,                 \* the terminated flag returned by the last step
    truncated,                  \* the truncated flag returned by the last step
    op,                         \* the branch the last call took
    returned,                   \* sum of the positive rewards returned since reset
    merges_succeeded,           \* merges that succeeded since the last clear or reset
    varied,                     \* draws of a 0 or a 5 since the deal
    np_random,                  \* self.np_random: the seed it was last seeded with
    seeded_deals,               \* for each seed, the deal of the first reset(seed)
    random_advance,             \* the _draw_card calls by which a second instance
                                \* has advanced the module-level generator random
    play_check,                 \* the last direct call of _is_valid_play: its
                                \* argument and the value it returned
    server                      \* the GameServer that owns the instance: its
                                \* running and auto_play flags, its handler
                                \* coroutines and what held at its last
                                \* env.step call

vars == <<hand, hold_slot, next_card, stack, current_turn, merges_this_turn,
          score, last_clear_is_full_chain, last_clear_stacked_zeros,
          reward, terminated, truncated, op, returned, merges_succeeded,
          varied, np_random, seeded_deals, random_advance, play_check,
          server>>

\* --- helpers ---------------------------------------------------------------
RECURSIVE CountIn(_, _)
\* list.count(v)
CountIn(s, v) ==
    IF s = <<>> THEN 0
    ELSE (IF Head(s) = v THEN 1 ELSE 0) + CountIn(Tail(s), v)

\* set(list)
ValuesOf(s) == { s[k] : k \in DOMAIN s }

RECURSIVE Pow(_, _)
Pow(b, n) == IF n = 0 THEN 1 ELSE b * Pow(b, n - 1)

\* --- card operations ----------------------------------------------------------
\* faulty variant of _count_specific_card_on_board: the stack is not counted
count_specific_card_on_board_without_stack(card_value, h, hd, nx, st) ==
    CountIn(h, card_value)
    + (IF hd = card_value THEN 1 ELSE 0)
    + (IF nx = card_value THEN 1 ELSE 0)

\* _count_specific_card_on_board, on the board (h, hd, nx, st)
count_specific_card_on_board(card_value, h, hd, nx, st) ==
    CountIn(h, card_value)
    + (IF hd = card_value THEN 1 ELSE 0)
    + (IF nx = card_value THEN 1 ELSE 0)
    + CountIn(st, card_value)

\* the list available_cards that _draw_card hands to random.choice when it
\* runs on the board (h, hd, nx, st)
available_cards(h, hd, nx, st) ==
    IF count_specific_card_on_board(MAX_CARD_VALUE, h, hd, nx, st) >= 1
    THEN (1..MAX_CARD_VALUE) \ {MAX_CARD_VALUE}
    ELSE 1..MAX_CARD_VALUE

\* the cards _draw_card can return when it runs on the board (h, hd, nx, st)
draw_card(h, hd, nx, st) ==
    {0} \cup available_cards(h, hd, nx, st)

\* the draws the model follows (see the bounds)
Drawn(h, hd, nx, st) ==
    { c \in draw_card(h, hd, nx, st) :
        c = LowestRank \/ (c \in SpecialCards /\ varied < MaxVaried) }

\* faulty variant of _is_valid_play: a card equal to the stack top is accepted
is_valid_play_not_strict(card_to_play) ==
    IF card_to_play = NO_CARD THEN FALSE
    ELSE LET stack_top == IF stack # <<>> THEN stack[Len(stack)] ELSE NO_CARD IN
         IF card_to_play = 0
         THEN stack = <<>> \/ stack_top = 0
         ELSE IF stack = <<>> THEN TRUE
              ELSE IF stack_top = 0 THEN TRUE
              ELSE card_to_play >= stack_top

\* faulty variant of _is_valid_play: a 0 is accepted on every stack
is_valid_play_zero_anywhere(card_to_play) ==
    IF card_to_play = NO_CARD THEN FALSE
    ELSE LET stack_top == IF stack # <<>> THEN stack[Len(stack)] ELSE NO_CARD IN
         IF card_to_play = 0
         THEN TRUE
         ELSE IF stack = <<>> THEN TRUE
              ELSE IF stack_top = 0 THEN TRUE
              ELSE card_to_play > stack_top

\* faulty variant of _is_valid_play: the ranks wrap around, a 1 is accepted
\* on a 5
is_valid_play_wraps(card_to_play) ==
    IF card_to_play = NO_CARD THEN FALSE
    ELSE LET stack_top == IF stack # <<>> THEN stack[Len(stack)] ELSE NO_CARD IN
         IF card_to_play = 0
         THEN stack = <<>> \/ stack_top = 0
         ELSE IF stack = <<>> THEN TRUE
              ELSE IF stack_top = 0 THEN TRUE
              ELSE \/ card_to_play > stack_top
                   \/ (stack_top = MAX_CARD_VALUE /\ card_to_play = 1)

\* _is_valid_play
is_valid_play(card_to_play) ==
    IF card_to_play = NO_CARD THEN FALSE
    ELSE LET stack_top == IF stack # <<>> THEN stack[Len(stack)] ELSE NO_CARD IN
         IF card_to_play = 0
         THEN stack = <<>> \/ stack_top = 0
         ELSE IF stack = <<>> THEN TRUE
              ELSE IF stack_top = 0 THEN TRUE
              ELSE card_to_play > stack_top

\* --- action codec -------------------------------------------------------------
\* faulty variant of the pair enumeration: the pairs are listed by their
\* second index first
merge_idx_pairs_by_second ==
    << <<0, 1>>, <<0, 2>>, <<1, 2>>, <<0, 3>>, <<1, 3>>, <<2, 3>> >>

\* list(combinations(range(HAND_SIZE), 2))
merge_idx_pairs ==
    << <<0, 1>>, <<0, 2>>, <<0, 3>>, <<1, 2>>, <<1, 3>>, <<2, 3>> >>

\* the keys of _action_to_merge_pair
MergeActionIds ==
    { ACTION_MERGE_OFFSET + i : i \in 0..(Len(merge_idx_pairs) - 1) }

\* _action_to_merge_pair[action]
action_to_merge_pair(action) ==
    merge_idx_pairs[action - ACTION_MERGE_OFFSET + 1]

\* the keys of _merge_pair_to_action
MergePairs == { action_to_merge_pair(a) : a \in MergeActionIds }

\* _merge_pair_to_action, the inverse dict of _action_to_merge_pair
merge_pair_to_action ==
    [ pair \in MergePairs |->
        CHOOSE a \in MergeActionIds : action_to_merge_pair(a) = pair ]

\* --- legality mask ------------------------------------------------------------
\* faulty variant of the eligibility test of action_masks: a pair of cards of
\* the merge limit value is not offered
MergeEligible_below_limit(card) ==
    0 < card /\ card < MAX_CARD_VALUE /\ card < MERGE_LIMIT_VALUE

\* the cards action_masks counts as eligible for a merge
MergeEligible(card) ==
    0 < card /\ card < MAX_CARD_VALUE /\ card < MERGE_LIMIT_VALUE + 1

\* the hand index pairs (idx1, idx2), idx1 < idx2, of two equal eligible
\* cards: combinations(indices_map[card], 2) over the cards counted twice
EligiblePairs ==
    { pair \in (0..(HAND_SIZE - 1)) \X (0..(HAND_SIZE - 1)) :
        /\ pair[1] < pair[2]
        /\ MergeEligible(hand[pair[1] + 1])
        /\ hand[pair[1] + 1] = hand[pair[2] + 1] }

\* faulty variant of action_masks: the merge entries ignore the per-turn cap
action_masks_no_cap ==
    [ id \in 0..(NUM_ACTIONS - 1) |->
        IF id < ACTION_PLAY_HOLD
        THEN is_valid_play(hand[id - ACTION_PLAY_HAND_OFFSET + 1])
        ELSE IF id = ACTION_PLAY_HOLD
        THEN is_valid_play(hold_slot)
        ELSE IF id < ACTION_HOLD_CARD_OFFSET
        THEN \E pair \in EligiblePairs :
                  /\ pair \in MergePairs
                  /\ merge_pair_to_action[pair] = id
        ELSE IF id < ACTION_CLEAR_STACK
        THEN hand[id - ACTION_HOLD_CARD_OFFSET + 1] = 0
        ELSE stack # <<>> ]

\* faulty variant of action_masks: the clear entry is never set
action_masks_without_clear ==
    [ id \in 0..(NUM_ACTIONS - 1) |->
        IF id < ACTION_PLAY_HOLD
        THEN is_valid_play(hand[id - ACTION_PLAY_HAND_OFFSET + 1])
        ELSE IF id = ACTION_PLAY_HOLD
        THEN is_valid_play(hold_slot)
        ELSE IF id < ACTION_HOLD_CARD_OFFSET
        THEN /\ merges_this_turn < MAX_MERGES_PER_TURN
             /\ \E pair \in EligiblePairs :
                  /\ pair \in MergePairs
                  /\ merge_pair_to_action[pair] = id
        ELSE IF id < ACTION_CLEAR_STACK
        THEN hand[id - ACTION_HOLD_CARD_OFFSET + 1] = 0
        ELSE FALSE ]

\* action_masks(), as a function on 0..NUM_ACTIONS-1
action_masks ==
    [ id \in 0..(NUM_ACTIONS - 1) |->
        IF id < ACTION_PLAY_HOLD
        THEN is_valid_play(hand[id - ACTION_PLAY_HAND_OFFSET + 1])
        ELSE IF id = ACTION_PLAY_HOLD
        THEN is_valid_play(hold_slot)
        ELSE IF id < ACTION_HOLD_CARD_OFFSET
        THEN /\ merges_this_turn < MAX_MERGES_PER_TURN
             /\ \E pair \in EligiblePairs :
                  /\ pair \in MergePairs
                  /\ merge_pair_to_action[pair] = id
        ELSE IF id < ACTION_CLEAR_STACK
        THEN hand[id - ACTION_HOLD_CARD_OFFSET + 1] = 0
        ELSE stack # <<>> ]

\* the condition of step's pre-check: no play is legal and the stack is not empty
ForcedClearState ==
    LET play_masks == action_masks
        can_play_from_hand ==
            \E id \in ACTION_PLAY_HAND_OFFSET..(ACTION_PLAY_HOLD - 1) : play_masks[id]
        can_play_from_hold == play_masks[ACTION_PLAY_HOLD]
    IN  ~can_play_from_hand /\ ~can_play_from_hold /\ stack # <<>>

\* --- reward ---------------------------------------------------------------------
\* faulty variant of _calculate_clear_reward: the zero multiplier is left out
calculate_clear_reward_no_multiplier(st) ==
    LET num_zeros == CountIn(st, 0)
        non_zero_stack == SelectSeq(st, LAMBDA c : c # 0)
        is_full_chain == ValuesOf(non_zero_stack) = 1..MAX_CARD_VALUE
        base == IF is_full_chain THEN REWARD_FULL_CHAIN ELSE 0
    IN  [reward |-> base, is_full_chain |-> is_full_chain, num_zeros |-> num_zeros]

\* _calculate_clear_reward: the triple it returns for the stack st
calculate_clear_reward(st) ==
    LET num_zeros == CountIn(st, 0)
        non_zero_stack == SelectSeq(st, LAMBDA c : c # 0)
        is_full_chain == ValuesOf(non_zero_stack) = 1..MAX_CARD_VALUE
        base == IF is_full_chain THEN REWARD_FULL_CHAIN ELSE 0
        r == IF num_zeros > 0 /\ base > 0
             THEN base * Pow(REWARD_ZERO_MULTIPLIER, num_zeros)
             ELSE base
    IN  [reward |-> r, is_full_chain |-> is_full_chain, num_zeros |-> num_zeros]

\* _calculate_clear_reward: its update of self.score
ScoreAfterClear(st) ==
    LET r == calculate_clear_reward(st).reward IN
    IF r > 0 THEN score + r ELSE score

\* faulty variant of _end_turn: merges_this_turn is not reset
end_turn_keeps_merges ==
    /\ stack' = <<>>
    /\ current_turn' = current_turn + 1
    /\ merges_this_turn' = merges_this_turn

\* faulty variant of _end_turn: current_turn is not advanced
end_turn_keeps_turn ==
    /\ stack' = <<>>
    /\ current_turn' = current_turn
    /\ merges_this_turn' = 0

\* _end_turn
end_turn ==
    /\ stack' = <<>>
    /\ current_turn' = current_turn + 1
    /\ merges_this_turn' = 0

\* --- observation and info -----------------------------------------------------------
\* faulty variant of _get_obs: next is the raw card, not card + 1
get_obs_raw_next ==
    LET stacked_zeros == CountIn(stack, 0)
        hold_obs == IF hold_slot = NO_CARD THEN 0 ELSE 1
        next_obs == IF next_card = NO_CARD THEN 0 ELSE next_card
        stack_top_obs == IF stack = <<>> THEN 0 ELSE stack[Len(stack)] + 1
        remaining_turns_obs == MAX_TURNS - current_turn + 1
        remaining_merges_obs == MAX_MERGES_PER_TURN - merges_this_turn
    IN  [ hand |-> hand,
          hold |-> hold_obs,
          next |-> next_obs,
          stack_top |-> stack_top_obs,
          stacked_zeros |-> stacked_zeros,
          remaining_turns |-> remaining_turns_obs,
          remaining_merges |-> remaining_merges_obs ]

\* _get_obs
get_obs ==
    LET stacked_zeros == CountIn(stack, 0)
        hold_obs == IF hold_slot = NO_CARD THEN 0 ELSE 1
        next_obs == IF next_card = NO_CARD THEN 0 ELSE next_card + 1
        stack_top_obs == IF stack = <<>> THEN 0 ELSE stack[Len(stack)] + 1
        remaining_turns_obs == MAX_TURNS - current_turn + 1
        remaining_merges_obs == MAX_MERGES_PER_TURN - merges_this_turn
    IN  [ hand |-> hand,
          hold |-> hold_obs,
          next |-> next_obs,
          stack_top |-> stack_top_obs,
          stacked_zeros |-> stacked_zeros,
          remaining_turns |-> remaining_turns_obs,
          remaining_merges |-> remaining_merges_obs ]

\* _get_info
get_info ==
    LET is_full_chain == last_clear_is_full_chain
        stacked_zeros == IF is_full_chain THEN last_clear_stacked_zeros
                         ELSE CountIn(stack, 0)
    IN  [ current_turn |-> current_turn,
          merges_this_turn |-> merges_this_turn,
          stack_size |-> Len(stack),
          current_stack |-> stack,
          hold_content |-> hold_slot,
          score |-> score,
          is_full_chain |-> is_full_chain,
          stacked_zeros |-> stacked_zeros ]

\* --- slot refills ------------------------------------------------------------------
\* the draw of a new next_card that ends _replace_card_in_hand and
\* _remove_and_replace_merged_cards; self.next_card still holds the old card
\* while _draw_card counts the board
DrawNext ==
    /\ next_card' \in Drawn(hand', hold_slot', next_card, stack')
    /\ varied' = IF next_card' = LowestRank THEN varied ELSE varied + 1

\* faulty variant of _replace_card_in_hand: the drawn card goes straight into
\* the hand slot and next_card is kept
replace_card_in_hand_from_draw(index) ==
    IF 0 <= index /\ index < HAND_SIZE
    THEN /\ \E c \in Drawn(hand, hold_slot', next_card, stack') :
              /\ hand' = [hand EXCEPT ![index + 1] = c]
              /\ varied' = IF c = LowestRank THEN varied ELSE varied + 1
         /\ next_card' = next_card
    ELSE UNCHANGED <<hand, next_card, varied>>

\* _replace_card_in_hand
replace_card_in_hand(index) ==
    IF 0 <= index /\ index < HAND_SIZE
    THEN /\ hand' = [hand EXCEPT ![index + 1] = next_card]
         /\ DrawNext
    ELSE UNCHANGED <<hand, next_card, varied>>

\* faulty variant of _remove_and_replace_merged_cards: the second merged slot
\* is emptied and not refilled from next_card
remove_and_replace_merged_cards_no_refill(idx1, idx2, merged_card) ==
    LET lo == IF idx1 <= idx2 THEN idx1 ELSE idx2
        hi == IF idx1 <= idx2 THEN idx2 ELSE idx1
    IN  /\ hand' = [[hand EXCEPT ![lo + 1] = merged_card] EXCEPT ![hi + 1] = NO_CARD]
        /\ DrawNext

\* _remove_and_replace_merged_cards
remove_and_replace_merged_cards(idx1, idx2, merged_card) ==
    LET lo == IF idx1 <= idx2 THEN idx1 ELSE idx2
        hi == IF idx1 <= idx2 THEN idx2 ELSE idx1
    IN  /\ hand' = [[hand EXCEPT ![lo + 1] = merged_card] EXCEPT ![hi + 1] = next_card]
        /\ DrawNext

\* --- handlers ------------------------------------------------------------------------
\* faulty variant of the penalty branch: the penalty is charged to the score
Penalised_charges_score ==
    /\ reward' = PENALTY_INVALID_ACTION
    /\ op' = "invalid"
    /\ score' = score + PENALTY_INVALID_ACTION
    /\ UNCHANGED <<hand, hold_slot, next_card, stack, current_turn,
                   merges_this_turn, last_clear_is_full_chain,
                   last_clear_stacked_zeros, varied>>

\* a handler's "reward = PENALTY_INVALID_ACTION" branch: nothing else is written
Penalised ==
    /\ reward' = PENALTY_INVALID_ACTION
    /\ op' = "invalid"
    /\ UNCHANGED <<hand, hold_slot, next_card, stack, current_turn,
                   merges_this_turn, score, last_clear_is_full_chain,
                   last_clear_stacked_zeros, varied>>

\* _handle_play_hand_action
handle_play_hand_action(action) ==
    LET hand_idx == action - ACTION_PLAY_HAND_OFFSET IN
    IF 0 <= hand_idx /\ hand_idx < Len(hand)
    THEN LET card_to_play == hand[hand_idx + 1] IN
         IF is_valid_play(card_to_play)
         THEN /\ stack' = Append(stack, card_to_play)
              /\ hold_slot' = hold_slot
              /\ replace_card_in_hand(hand_idx)
              /\ reward' = 0
              /\ op' = "play_hand"
              /\ UNCHANGED <<current_turn, merges_this_turn, score,
                             last_clear_is_full_chain,
                             last_clear_stacked_zeros>>
         ELSE Penalised
    ELSE Penalised

\* faulty variant of _handle_play_hold_action: a held card is played without
\* the validity test
handle_play_hold_action_unchecked ==
    LET card_to_play == hold_slot IN
    IF card_to_play # NO_CARD
    THEN /\ stack' = Append(stack, card_to_play)
         /\ hold_slot' = NO_CARD
         /\ reward' = 0
         /\ op' = "play_hold"
         /\ UNCHANGED <<hand, next_card, current_turn, merges_this_turn, score,
                        last_clear_is_full_chain, last_clear_stacked_zeros,
                        varied>>
    ELSE Penalised

\* faulty variant of _handle_play_hold_action: playing from an empty hold
\* slot raises instead of returning the penalty
handle_play_hold_action_raises ==
    LET card_to_play == hold_slot IN
    /\ card_to_play # NO_CARD
    /\ IF is_valid_play(card_to_play)
       THEN /\ stack' = Append(stack, card_to_play)
            /\ hold_slot' = NO_CARD
            /\ reward' = 0
            /\ op' = "play_hold"
            /\ UNCHANGED <<hand, next_card, current_turn, merges_this_turn,
                           score, last_clear_is_full_chain,
                           last_clear_stacked_zeros, varied>>
       ELSE Penalised

\* faulty variant of _handle_play_hold_action: the held card stays in hold
handle_play_hold_action_keeps_hold ==
    LET card_to_play == hold_slot IN
    IF is_valid_play(card_to_play)
    THEN /\ stack' = Append(stack, card_to_play)
         /\ hold_slot' = hold_slot
         /\ reward' = 0
         /\ op' = "play_hold"
         /\ UNCHANGED <<hand, next_card, current_turn, merges_this_turn, score,
                        last_clear_is_full_chain, last_clear_stacked_zeros,
                        varied>>
    ELSE Penalised

\* _handle_play_hold_action
handle_play_hold_action ==
    LET card_to_play == hold_slot IN
    IF is_valid_play(card_to_play)
    THEN /\ stack' = Append(stack, card_to_play)
         /\ hold_slot' = NO_CARD
         /\ reward' = 0
         /\ op' = "play_hold"
         /\ UNCHANGED <<hand, next_card, current_turn, merges_this_turn, score,
                        last_clear_is_full_chain, last_clear_stacked_zeros,
                        varied>>
    ELSE Penalised

\* faulty variant of _handle_merge_action: the cap test is off by one
handle_merge_action_off_by_one(action) ==
    IF merges_this_turn > MAX_MERGES_PER_TURN THEN Penalised
    ELSE IF action \notin MergeActionIds THEN Penalised
    ELSE LET idx_pair == action_to_merge_pair(action)
             idx1 == idx_pair[1]
             idx2 == idx_pair[2]
         IN  IF /\ 0 <= idx1 /\ idx1 < HAND_SIZE
                /\ 0 <= idx2 /\ idx2 < HAND_SIZE
                /\ idx1 # idx2
                /\ hand[idx1 + 1] = hand[idx2 + 1]
                /\ 0 < hand[idx1 + 1] /\ hand[idx1 + 1] < MAX_CARD_VALUE
                /\ hand[idx1 + 1] < MERGE_LIMIT_VALUE + 1
             THEN LET card_value == hand[idx1 + 1]
                      merged_card == IF card_value < MERGE_LIMIT_VALUE
                                     THEN card_value + 1
                                     ELSE MERGE_LIMIT_VALUE
                  IN  /\ stack' = stack
                      /\ hold_slot' = hold_slot
                      /\ remove_and_replace_merged_cards(idx1, idx2, merged_card)
                      /\ merges_this_turn' = merges_this_turn + 1
                      /\ reward' = 0
                      /\ op' = "merge"
                      /\ UNCHANGED <<current_turn, score,
                                     last_clear_is_full_chain,
                                     last_clear_stacked_zeros>>
             ELSE Penalised

\* faulty variant of _handle_merge_action: the merged value is not limited
\* to MERGE_LIMIT_VALUE
handle_merge_action_no_limit(action) ==
    IF merges_this_turn >= MAX_MERGES_PER_TURN THEN Penalised
    ELSE IF action \notin MergeActionIds THEN Penalised
    ELSE LET idx_pair == action_to_merge_pair(action)
             idx1 == idx_pair[1]
             idx2 == idx_pair[2]
         IN  IF /\ 0 <= idx1 /\ idx1 < HAND_SIZE
                /\ 0 <= idx2 /\ idx2 < HAND_SIZE
                /\ idx1 # idx2
                /\ hand[idx1 + 1] = hand[idx2 + 1]
                /\ 0 < hand[idx1 + 1] /\ hand[idx1 + 1] < MAX_CARD_VALUE
                /\ hand[idx1 + 1] < MERGE_LIMIT_VALUE + 1
             THEN LET card_value == hand[idx1 + 1]
                      merged_card == card_value + 1
                  IN  /\ stack' = stack
                      /\ hold_slot' = hold_slot
                      /\ remove_and_replace_merged_cards(idx1, idx2, merged_card)
                      /\ merges_this_turn' = merges_this_turn + 1
                      /\ reward' = 0
                      /\ op' = "merge"
                      /\ UNCHANGED <<current_turn, score,
                                     last_clear_is_full_chain,
                                     last_clear_stacked_zeros>>
             ELSE Penalised

\* _handle_merge_action
handle_merge_action(action) ==
    IF merges_this_turn >= MAX_MERGES_PER_TURN THEN Penalised
    ELSE IF action \notin MergeActionIds THEN Penalised
    ELSE LET idx_pair == action_to_merge_pair(action)
             idx1 == idx_pair[1]
             idx2 == idx_pair[2]
         IN  IF /\ 0 <= idx1 /\ idx1 < HAND_SIZE
                /\ 0 <= idx2 /\ idx2 < HAND_SIZE
                /\ idx1 # idx2
                /\ hand[idx1 + 1] = hand[idx2 + 1]
                /\ 0 < hand[idx1 + 1] /\ hand[idx1 + 1] < MAX_CARD_VALUE
                /\ hand[idx1 + 1] < MERGE_LIMIT_VALUE + 1
             THEN LET card_value == hand[idx1 + 1]
                      merged_card == IF card_value < MERGE_LIMIT_VALUE
                                     THEN card_value + 1
                                     ELSE MERGE_LIMIT_VALUE
                  IN  /\ stack' = stack
                      /\ hold_slot' = hold_slot
                      /\ remove_and_replace_merged_cards(idx1, idx2, merged_card)
                      /\ merges_this_turn' = merges_this_turn + 1
                      /\ reward' = 0
                      /\ op' = "merge"
                      /\ UNCHANGED <<current_turn, score,
                                     last_clear_is_full_chain,
                                     last_clear_stacked_zeros>>
             ELSE Penalised

\* faulty variant of _handle_hold_card_action: the card is not tested for 0
handle_hold_card_action_any_card(action) ==
    LET hand_idx == action - ACTION_HOLD_CARD_OFFSET IN
    IF 0 <= hand_idx /\ hand_idx < HAND_SIZE
    THEN /\ hold_slot' = hand[hand_idx + 1]
         /\ stack' = stack
         /\ replace_card_in_hand(hand_idx)
         /\ reward' = 0
         /\ op' = "hold_card"
         /\ UNCHANGED <<current_turn, merges_this_turn, score,
                        last_clear_is_full_chain, last_clear_stacked_zeros>>
    ELSE Penalised

\* faulty variant of _handle_hold_card_action: an occupied hold is not
\* overwritten
handle_hold_card_action_no_overwrite(action) ==
    LET hand_idx == action - ACTION_HOLD_CARD_OFFSET IN
    IF /\ 0 <= hand_idx /\ hand_idx < HAND_SIZE /\ hand[hand_idx + 1] = 0
       /\ hold_slot = NO_CARD
    THEN /\ hold_slot' = hand[hand_idx + 1]
         /\ stack' = stack
         /\ replace_card_in_hand(hand_idx)
         /\ reward' = 0
         /\ op' = "hold_card"
         /\ UNCHANGED <<current_turn, merges_this_turn, score,
                        last_clear_is_full_chain, last_clear_stacked_zeros>>
    ELSE Penalised

\* _handle_hold_card_action
handle_hold_card_action(action) ==
    LET hand_idx == action - ACTION_HOLD_CARD_OFFSET IN
    IF 0 <= hand_idx /\ hand_idx < HAND_SIZE /\ hand[hand_idx + 1] = 0
    THEN /\ hold_slot' = hand[hand_idx + 1]
         /\ stack' = stack
         /\ replace_card_in_hand(hand_idx)
         /\ reward' = 0
         /\ op' = "hold_card"
         /\ UNCHANGED <<current_turn, merges_this_turn, score,
                        last_clear_is_full_chain, last_clear_stacked_zeros>>
    ELSE Penalised

\* faulty variant of _handle_clear_stack_action: an empty stack is cleared too
handle_clear_stack_action_on_empty ==
    LET res == calculate_clear_reward(stack) IN
    /\ score' = ScoreAfterClear(stack)
    /\ last_clear_is_full_chain' = res.is_full_chain
    /\ last_clear_stacked_zeros' = res.num_zeros
    /\ end_turn
    /\ reward' = res.reward
    /\ op' = "clear_stack"
    /\ UNCHANGED <<hand, hold_slot, next_card, varied>>

\* faulty variant of _handle_clear_stack_action: the clear draws a new
\* next_card
handle_clear_stack_action_draws ==
    IF stack = <<>> THEN Penalised
    ELSE LET res == calculate_clear_reward(stack) IN
         /\ score' = ScoreAfterClear(stack)
         /\ last_clear_is_full_chain' = res.is_full_chain
         /\ last_clear_stacked_zeros' = res.num_zeros
         /\ end_turn
         /\ reward' = res.reward
         /\ op' = "clear_stack"
         /\ hand' = hand
         /\ hold_slot' = hold_slot
         /\ DrawNext

\* _handle_clear_stack_action
handle_clear_stack_action ==
    IF stack = <<>> THEN Penalised
    ELSE LET res == calculate_clear_reward(stack) IN
         /\ score' = ScoreAfterClear(stack)
         /\ last_clear_is_full_chain' = res.is_full_chain
         /\ last_clear_stacked_zeros' = res.num_zeros
         /\ end_turn
         /\ reward' = res.reward
         /\ op' = "clear_stack"
         /\ UNCHANGED <<hand, hold_slot, next_card, varied>>

\* the forced clear of step's pre-check (lines 238-249): the submitted action
\* is not looked at
ForcedClear ==
    LET res == calculate_clear_reward(stack) IN
    /\ score' = ScoreAfterClear(stack)
    /\ end_turn
    /\ reward' = res.reward
    /\ op' = "forced_clear"
    /\ UNCHANGED <<hand, hold_slot, next_card, varied,
                   last_clear_is_full_chain, last_clear_stacked_zeros>>

\* the if/elif chain of step (lines 253-265)
Dispatch(action) ==
    IF ACTION_PLAY_HAND_OFFSET <= action /\ action < ACTION_PLAY_HOLD
    THEN handle_play_hand_action(action)
    ELSE IF action = ACTION_PLAY_HOLD
    THEN handle_play_hold_action
    ELSE IF ACTION_MERGE_OFFSET <= action /\ action < ACTION_HOLD_CARD_OFFSET
    THEN handle_merge_action(action)
    ELSE IF ACTION_HOLD_CARD_OFFSET <= action /\ action < ACTION_CLEAR_STACK
    THEN handle_hold_card_action(action)
    ELSE IF action = ACTION_CLEAR_STACK
    THEN handle_clear_stack_action
    ELSE Penalised

\* the turns in which the model follows the calls of step: the first
\* TurnCap turns of an episode, and its end from turn MAX_TURNS on
Stepped ==
    \/ current_turn <= TurnCap
    \/ (MAX_TURNS <= current_turn /\ current_turn <= MAX_TURNS + LateTurns)

\* faulty variant of the termination test: the episode ends one turn early
TerminatedFlag_at_max == current_turn' >= MAX_TURNS

\* faulty variant of the termination test: the flag is raised only by the step
\* that takes current_turn past MAX_TURNS
TerminatedFlag_when_crossing ==
    current_turn' > MAX_TURNS /\ current_turn <= MAX_TURNS

\* the terminated flag of step: False, set to True by
\* "if self.current_turn > MAX_TURNS" on the forced-clear path (242-243) and
\* on the dispatch path (268-269)
TerminatedFlag == current_turn' > MAX_TURNS

\* step(action).  Before the first reset the hand is empty and action_masks
\* raises IndexError, so step is defined from the first reset on.
step(action) ==
    /\ op # "init"
    /\ Stepped
    /\ IF ForcedClearState THEN ForcedClear ELSE Dispatch(action)
    /\ terminated' = TerminatedFlag
    /\ truncated' = FALSE
    /\ returned' = returned + (IF reward' > 0 THEN reward' ELSE 0)
    /\ merges_succeeded' =
          IF op' = "merge" THEN merges_succeeded + 1
          ELSE IF op' \in {"clear_stack", "forced_clear"} THEN 0
          ELSE merges_succeeded
    /\ UNCHANGED <<np_random, seeded_deals, random_advance, play_check>>

\* a call of step by a driver that is not the GameServer
Step(action) ==
    /\ step(action)
    /\ UNCHANGED server

\* faulty variant of _deal_initial_cards: the hold slot is not emptied
deal_initial_cards_keeps_hold ==
    /\ hand' \in { h \in { d[1] : d \in Deals } :
                     \A k \in 1..HAND_SIZE :
                        h[k] \in draw_card(hand, hold_slot, next_card, <<>>) }
    /\ hold_slot' = hold_slot
    /\ next_card' \in { c \in draw_card(hand', hold_slot, next_card, <<>>) :
                         <<hand', c>> \in Deals }

\* _deal_initial_cards, run by reset after self.stack = []: the four hand
\* draws count the board of the previous episode (self.hand is assigned only
\* after the list is built), the draw of next_card counts the new hand and
\* the previous next_card
deal_initial_cards ==
    /\ hand' \in { h \in { d[1] : d \in Deals } :
                     \A k \in 1..HAND_SIZE :
                        h[k] \in draw_card(hand, hold_slot, next_card, <<>>) }
    /\ hold_slot' = NO_CARD
    /\ next_card' \in { c \in draw_card(hand', NO_CARD, next_card, <<>>) :
                         <<hand', c>> \in Deals }

\* reset(seed=seed): super().reset(seed=seed) seeds self.np_random when a
\* seed is given; the deal draws through _draw_card, which reads the
\* module-level generator random and not self.np_random
env_reset(seed) ==
    /\ np_random' = IF seed = NoSeed THEN np_random ELSE seed
    /\ stack' = <<>>
    /\ current_turn' = 1
    /\ merges_this_turn' = 0
    /\ score' = 0
    /\ last_clear_is_full_chain' = FALSE
    /\ last_clear_stacked_zeros' = 0
    /\ deal_initial_cards
    /\ reward' = 0
    /\ terminated' = FALSE
    /\ truncated' = FALSE
    /\ op' = "reset"
    /\ returned' = 0
    /\ merges_succeeded' = 0
    /\ varied' = 0
    /\ seeded_deals' =
          IF seed # NoSeed /\ seeded_deals[seed] = NoDeal
          THEN [seeded_deals EXCEPT ![seed] = <<hand', next_card'>>]
          ELSE seeded_deals
    /\ random_advance' = random_advance
    /\ play_check' = play_check

\* a call of reset by a driver that is not the GameServer
reset(seed) ==
    /\ env_reset(seed)
    /\ UNCHANGED server

\* reset()
Reset == reset(NoSeed)

\* reset(seed=s) for a seed s
ResetSeeded == \E seed \in Seeds : reset(seed)

\* reset() of a second instance: its _deal_initial_cards calls _draw_card
\* HAND_SIZE + 1 times, each call reading the module-level generator random
OtherReset ==
    /\ random_advance = 0
    /\ random_advance' = random_advance + HAND_SIZE + 1
    /\ UNCHANGED <<hand, hold_slot, next_card, stack, current_turn,
                   merges_this_turn, score, last_clear_is_full_chain,
                   last_clear_stacked_zeros, reward, terminated, truncated,
                   op, returned, merges_succeeded, varied, np_random,
                   seeded_deals, play_check, server>>

\* a step of the second instance that refills a slot (a play from the hand, a
\* merge or a hold): one call of _draw_card
OtherStep ==
    /\ HAND_SIZE + 1 <= random_advance
    /\ random_advance < HAND_SIZE + 1 + OtherSteps
    /\ random_advance' = random_advance + 1
    /\ UNCHANGED <<hand, hold_slot, next_card, stack, current_turn,
                   merges_this_turn, score, last_clear_is_full_chain,
                   last_clear_stacked_zeros, reward, terminated, truncated,
                   op, returned, merges_succeeded, varied, np_random,
                   seeded_deals, play_check, server>>

\* the instance after __init__
Init ==
    /\ hand = <<>>
    /\ hold_slot = NO_CARD
    /\ next_card = NO_CARD
    /\ stack = <<>>
    /\ current_turn = 0
    /\ merges_this_turn = 0
    /\ score = 0
    /\ last_clear_is_full_chain = FALSE
    /\ last_clear_stacked_zeros = 0
    /\ reward = 0
    /\ terminated = FALSE
    /\ truncated = FALSE
    /\ op = "init"
    /\ returned = 0
    /\ merges_succeeded = 0
    /\ varied = 0
    /\ np_random = NoSeed
    /\ seeded_deals = [seed \in Seeds |-> NoDeal]
    /\ random_advance = 0
    /\ play_check = NoCheck
    /\ server = ServerIdle

Next ==
    \/ Reset
    \/ \E action \in ActionIds : Step(action)

Spec == Init /\ [][Next]_vars

\* The end of an episode.  The instance is in this state after reset has
\* dealt the hand [1,1,1,1] with next_card 1 and the driver has then, turn
\* after turn, played hand slot 0 (action 0) and submitted action 15, which
\* the forced clear answers (no card of the hand goes onto a 1), every refill
\* drawing a 1, until current_turn is MAX_TURNS.
InitLate ==
    /\ hand = [k \in 1..HAND_SIZE |-> LowestRank]
    /\ hold_slot = NO_CARD
    /\ next_card = LowestRank
    /\ stack = <<>>
    /\ current_turn = MAX_TURNS
    /\ merges_this_turn = 0
    /\ score = 0
    /\ last_clear_is_full_chain = FALSE
    /\ last_clear_stacked_zeros = 0
    /\ reward = 0
    /\ terminated = FALSE
    /\ truncated = FALSE
    /\ op = "forced_clear"
    /\ returned = 0
    /\ merges_succeeded = 0
    /\ varied = 0
    /\ np_random = NoSeed
    /\ seeded_deals = [seed \in Seeds |-> NoDeal]
    /\ random_advance = 0
    /\ play_check = NoCheck
    /\ server = ServerIdle

\* an instance followed from its construction and from the end of an episode
SpecLate == (Init \/ InitLate) /\ [][Next]_vars

\* The instance after a reset whose five draws all returned 0: every call of
\* _draw_card returns 0 when random.random() < ZERO_DRAW_RATE.
InitZeros ==
    /\ hand = [k \in 1..HAND_SIZE |-> 0]
    /\ hold_slot = NO_CARD
    /\ next_card = 0
    /\ stack = <<>>
    /\ current_turn = 1
    /\ merges_this_turn = 0
    /\ score = 0
    /\ last_clear_is_full_chain = FALSE
    /\ last_clear_stacked_zeros = 0
    /\ reward = 0
    /\ terminated = FALSE
    /\ truncated = FALSE
    /\ op = "reset"
    /\ returned = 0
    /\ merges_succeeded = 0
    /\ varied = 0
    /\ np_random = NoSeed
    /\ seeded_deals = [seed \in Seeds |-> NoDeal]
    /\ random_advance = 0
    /\ play_check = NoCheck
    /\ server = ServerIdle

\* an instance followed from that reset
SpecZeros == InitZeros /\ [][Next]_vars

\* one iteration of the loop of test.py's main: while the episode has not
\* terminated, an action id is chosen among the true entries of action_masks()
\* and passed to step
MaskedStep ==
    /\ ~terminated
    /\ \E action \in 0..(NUM_ACTIONS - 1) :
          /\ action_masks[action]
          /\ Step(action)

NextMasked == MaskedStep

\* The last turn of an episode under that driver.  The loop runs an iteration
\* whenever one is possible (weak fairness); a 0 is drawn at most MaxVaried
\* times.
SpecMasked == InitLate /\ [][NextMasked]_vars /\ WF_vars(NextMasked)

\* --- GameServer (src/card-game-visualizer/server/server.py) --------------------
\* The handlers are coroutines on one event loop: each action below is the
\* code a coroutine runs from one await to the next, and another coroutine
\* may run at every await.
EngineFields ==
    <<hand, hold_slot, next_card, stack, current_turn, merges_this_turn,
      score, last_clear_is_full_chain, last_clear_stacked_zeros, reward,
      terminated, truncated, op, returned, merges_succeeded, varied,
      np_random, seeded_deals, random_advance, play_check>>

\* valid_actions of perform_ai_action
valid_actions == { i \in 0..(NUM_ACTIONS - 1) : action_masks[i] }

\* perform_ai_action up to its first await (the emit of the action's
\* description), entered by coroutine t of the given kind with running true:
\* the mask is read and an action chosen among its true entries, by
\* random.choice or by model.predict under the mask; with no true entry
\* running is cleared
perform_ai_action_choose(t, kind) ==
    IF valid_actions = {}
    THEN server' = [server EXCEPT !.running = FALSE, !.tasks[t] = FreeTask]
    ELSE \E action \in valid_actions :
            server' = [server EXCEPT !.tasks[t] =
                          [pc |-> "chosen", kind |-> kind,
                           action |-> action, term |-> FALSE]]

\* command 'start', start_game up to its first await: reset, running = True
start_game(t) ==
    /\ server.tasks[t].pc = "free"
    /\ env_reset(NoSeed)
    /\ server' = [server EXCEPT !.running = TRUE,
                                !.tasks[t] = [FreeTask EXCEPT !.pc = "started"]]

\* start_game after its awaits: with auto_play set an auto_play_loop task is
\* created
start_game_resume(t) ==
    /\ server.tasks[t].pc = "started"
    /\ server' = [server EXCEPT !.tasks[t] =
                     IF server.auto_play
                     THEN [FreeTask EXCEPT !.pc = "loop", !.kind = "auto"]
                     ELSE FreeTask]
    /\ UNCHANGED EngineFields

\* command 'reset', reset_game: reset, running = True; what follows its
\* awaits writes nothing
reset_game ==
    /\ env_reset(NoSeed)
    /\ server' = [server EXCEPT !.running = TRUE]

\* command 'next', next_turn: with running true, perform_ai_action is entered
next_turn(t) ==
    /\ server.tasks[t].pc = "free"
    /\ server.running
    /\ perform_ai_action_choose(t, "next")
    /\ UNCHANGED EngineFields

\* command 'auto:start' up to its await: auto_play = True
auto_start(t) ==
    /\ server.tasks[t].pc = "free"
    /\ ~server.auto_play
    /\ server' = [server EXCEPT !.auto_play = TRUE,
                                !.tasks[t] = [FreeTask EXCEPT !.pc = "auto_sent"]]
    /\ UNCHANGED EngineFields

\* command 'auto:start' after its await: with running true an auto_play_loop
\* task is created
auto_start_resume(t) ==
    /\ server.tasks[t].pc = "auto_sent"
    /\ server' = [server EXCEPT !.tasks[t] =
                     IF server.running
                     THEN [FreeTask EXCEPT !.pc = "loop", !.kind = "auto"]
                     ELSE FreeTask]
    /\ UNCHANGED EngineFields

\* command 'auto:stop': auto_play = False
auto_stop ==
    /\ server.auto_play
    /\ server' = [server EXCEPT !.auto_play = FALSE]
    /\ UNCHANGED EngineFields

\* auto_play_loop at its while test, when created and after each sleep
auto_play_loop(t) ==
    /\ server.tasks[t].pc = "loop"
    /\ IF server.auto_play /\ server.running
       THEN perform_ai_action_choose(t, "auto")
       ELSE server' = [server EXCEPT !.tasks[t] = FreeTask]
    /\ UNCHANGED EngineFields

\* perform_ai_action resumed after the emit: env.step(action) with the action
\* chosen before the await; checked records whether running was true, the
\* episode not terminated and the action's mask entry true in the engine
\* state right before the call
perform_ai_action_step(t) ==
    /\ server.tasks[t].pc = "chosen"
    /\ step(server.tasks[t].action)
    /\ server' = [server EXCEPT
                     !.tasks[t] = [@ EXCEPT !.pc = "stepped",
                                            !.term = terminated' \/ truncated'],
                     !.checked = <<server.running, ~terminated,
                                   action_masks[server.tasks[t].action]>>]

\* perform_ai_action after the awaits that follow the step (send_game_state):
\* if the step returned terminated or truncated, running = False; a 'next'
\* handler ends, an auto_play_loop sleeps and returns to its while test
perform_ai_action_finish(t) ==
    /\ server.tasks[t].pc = "stepped"
    /\ server' = [server EXCEPT
                     !.running = IF server.tasks[t].term THEN FALSE ELSE @,
                     !.tasks[t] = IF server.tasks[t].kind = "auto"
                                  THEN [FreeTask EXCEPT !.pc = "loop", !.kind = "auto"]
                                  ELSE FreeTask]
    /\ UNCHANGED EngineFields

NextServer ==
    \/ \E t \in Tasks : start_game(t)
    \/ \E t \in Tasks : start_game_resume(t)
    \/ reset_game
    \/ \E t \in Tasks : next_turn(t)
    \/ \E t \in Tasks : auto_start(t)
    \/ \E t \in Tasks : auto_start_resume(t)
    \/ auto_stop
    \/ \E t \in Tasks : auto_play_loop(t)
    \/ \E t \in Tasks : perform_ai_action_step(t)
    \/ \E t \in Tasks : perform_ai_action_finish(t)

\* a GameServer followed from its construction
SpecServer == Init /\ [][NextServer]_vars

\* --- the legacy 11-action engine (src/card_game_env.py) -------------------------
\* An instance of the legacy CardGameEnv: hand, next_card, stack, score,
\* current_turn and merges_this_turn are its fields of these names, reward,
\* terminated and truncated what its last step returned; it has no hold slot.
LEGACY_NUM_ACTIONS == 11
LEGACY_CLEAR == 10
legacy_max_turns == 20
legacy_max_merges_per_turn == 2

\* _merge_actions
legacy_merge_actions ==
    [ id \in 4..9 |->
        << <<0, 1>>, <<0, 2>>, <<0, 3>>, <<1, 2>>, <<1, 3>>, <<2, 3>> >>[id - 3] ]

\* The deals <<hand, next_card>> the model follows; _draw_card is
\* random.randint(1, 5).
LegacyDeals ==
    { << <<1, 2, 3, 4>>, 5 >>, << <<4, 4, 1, 1>>, 1 >>, << <<5, 5, 3, 3>>, 2 >> }

\* the draws the model follows after the deal: a 1 freely, another rank at
\* most MaxVaried times
LegacyDrawn ==
    { c \in 1..5 : c = LowestRank \/ varied < MaxVaried }

\* list.pop(i) on the hand h: the list that is left
legacy_pop(h, i) ==
    SubSeq(h, 1, i) \o SubSeq(h, i + 2, Len(h))

\* the part of the instance the legacy engine does not have
LegacyAbsent ==
    <<hold_slot, last_clear_is_full_chain, last_clear_stacked_zeros, returned,
      merges_succeeded, np_random, seeded_deals, random_advance, play_check,
      server>>

\* reset of the legacy engine
legacy_reset ==
    /\ \E d \in LegacyDeals : hand' = d[1] /\ next_card' = d[2]
    /\ stack' = <<>>
    /\ score' = 0
    /\ current_turn' = 1
    /\ merges_this_turn' = 0
    /\ reward' = 0
    /\ terminated' = FALSE
    /\ truncated' = FALSE
    /\ op' = "reset"
    /\ varied' = 0
    /\ UNCHANGED LegacyAbsent

\* _is_valid_play of the legacy engine
legacy_is_valid_play(card_to_play) ==
    IF stack = <<>> THEN TRUE ELSE card_to_play > stack[Len(stack)]

\* action_masks of the legacy engine, as a function on 0..10
legacy_action_masks ==
    LET stack_top == IF stack # <<>> THEN stack[Len(stack)] ELSE 0 IN
    [ id \in 0..(LEGACY_NUM_ACTIONS - 1) |->
        IF id <= 3
        THEN id < Len(hand) /\ hand[id + 1] # 0 /\ hand[id + 1] > stack_top
        ELSE IF id <= 9
        THEN /\ merges_this_turn < legacy_max_merges_per_turn
             /\ LET idx1 == legacy_merge_actions[id][1]
                    idx2 == legacy_merge_actions[id][2]
                IN  /\ idx1 < Len(hand) /\ idx2 < Len(hand)
                    /\ hand[idx1 + 1] # 0 /\ hand[idx1 + 1] < 5
                    /\ hand[idx1 + 1] = hand[idx2 + 1]
        ELSE Len(stack) > 0 ]

\* a branch of the legacy step that sets reward = -0.1 and writes nothing else
LegacyPenalised ==
    /\ reward' = PENALTY_INVALID_ACTION
    /\ op' = "invalid"
    /\ UNCHANGED <<hand, next_card, stack, score, current_turn,
                   merges_this_turn, varied>>

\* the refill that ends a play and a merge of the legacy engine: next_card is
\* appended to the hand h and a new next_card is drawn
legacy_refill(h) ==
    /\ hand' = Append(h, next_card)
    /\ next_card' \in LegacyDrawn
    /\ varied' = IF next_card' = LowestRank THEN varied ELSE varied + 1

\* step of the legacy engine
legacy_step(action) ==
    /\ op # "init"
    /\ current_turn <= TurnCap
    /\ IF 0 <= action /\ action <= 3
       THEN IF action < Len(hand) /\ hand[action + 1] # 0
            THEN IF legacy_is_valid_play(hand[action + 1])
                 THEN LET played == Append(stack, hand[action + 1]) IN
                      /\ legacy_refill(legacy_pop(hand, action))
                      /\ IF played = <<1, 2, 3, 4, 5>>
                         THEN score' = score + 1 /\ stack' = <<>>
                         ELSE score' = score /\ stack' = played
                      /\ reward' = 0
                      /\ op' = "play_hand"
                      /\ UNCHANGED <<current_turn, merges_this_turn>>
                 ELSE LegacyPenalised
            ELSE LegacyPenalised
       ELSE IF 4 <= action /\ action <= 9
       THEN IF merges_this_turn < legacy_max_merges_per_turn
            THEN LET idx1 == legacy_merge_actions[action][1]
                     idx2 == legacy_merge_actions[action][2]
                 IN  IF /\ idx1 < Len(hand) /\ idx2 < Len(hand)
                        /\ hand[idx1 + 1] # 0
                        /\ hand[idx1 + 1] = hand[idx2 + 1]
                        /\ hand[idx1 + 1] < 5
                     THEN LET card_value == hand[idx1 + 1]
                              merged_card == IF card_value < 4
                                             THEN card_value + 1 ELSE 4
                          IN  /\ legacy_refill(
                                    Append(legacy_pop(legacy_pop(hand, idx2), idx1),
                                           merged_card))
                              /\ merges_this_turn' = merges_this_turn + 1
                              /\ reward' = 0
                              /\ op' = "merge"
                              /\ UNCHANGED <<stack, score, current_turn>>
                     ELSE LegacyPenalised
            ELSE LegacyPenalised
       ELSE IF action = LEGACY_CLEAR
       THEN /\ stack' = <<>>
            /\ current_turn' = current_turn + 1
            /\ merges_this_turn' = 0
            /\ reward' = 0
            /\ op' = "clear_stack"
            /\ UNCHANGED <<hand, next_card, score, varied>>
       ELSE LegacyPenalised
    /\ terminated' = (current_turn' > legacy_max_turns)
    /\ truncated' = FALSE
    /\ UNCHANGED LegacyAbsent

\* the action ids a driver of the legacy engine submits
LegacyActionIds == (0 - 1)..LEGACY_NUM_ACTIONS

NextLegacy ==
    \/ legacy_reset
    \/ \E action \in LegacyActionIds : legacy_step(action)

\* an instance of the legacy engine followed from its construction
SpecLegacy == Init /\ [][NextLegacy]_vars

\* a driver that passes a seed to every reset
NextSeeded ==
    \/ ResetSeeded
    \/ \E action \in ActionIds : Step(action)

SpecSeeded == Init /\ [][NextSeeded]_vars

\* a driver of two instances, its calls interleaved in any order
NextTwo ==
    \/ Reset
    \/ \E action \in ActionIds : Step(action)
    \/ OtherReset
    \/ OtherStep

SpecTwo == Init /\ [][NextTwo]_vars

\* the stacks and the candidate cards _is_valid_play is applied to: the stacks
\* of at most MaxStackLen cards that plays can build, every card having been a
\* valid play on the card below it
StackInputs ==
    { st \in UNION { [1..n -> CARD_TYPES] : n \in 0..MaxStackLen } :
        \A k \in 1..(Len(st) - 1) : st[k] = 0 \/ st[k] < st[k + 1] }
CandidateCards == CARD_TYPES \cup {NO_CARD}

\* an instance whose stack is any of these stacks
InitPlay ==
    /\ hand = <<>>
    /\ hold_slot = NO_CARD
    /\ next_card = NO_CARD
    /\ stack \in StackInputs
    /\ current_turn = 0
    /\ merges_this_turn = 0
    /\ score = 0
    /\ last_clear_is_full_chain = FALSE
    /\ last_clear_stacked_zeros = 0
    /\ reward = 0
    /\ terminated = FALSE
    /\ truncated = FALSE
    /\ op = "init"
    /\ returned = 0
    /\ merges_succeeded = 0
    /\ varied = 0
    /\ np_random = NoSeed
    /\ seeded_deals = [seed \in Seeds |-> NoDeal]
    /\ random_advance = 0
    /\ play_check = NoCheck
    /\ server = ServerIdle

\* a direct call _is_valid_play(card_to_play)
IsValidPlay(card_to_play) ==
    /\ play_check' = <<card_to_play, is_valid_play(card_to_play)>>
    /\ UNCHANGED <<hand, hold_slot, next_card, stack, current_turn,
                   merges_this_turn, score, last_clear_is_full_chain,
                   last_clear_stacked_zeros, reward, terminated, truncated,
                   op, returned, merges_succeeded, varied, np_random,
                   seeded_deals, random_advance, server>>

NextPlay == \E card_to_play \in CandidateCards : IsValidPlay(card_to_play)

SpecPlay == InitPlay /\ [][NextPlay]_vars

\* --- properties ---------------------------------------------------------------------
\* the declared action ids
DeclaredIds == 0..(NUM_ACTIONS - 1)

\* the branch name of the band an action id lies in
BandOf(a) ==
    IF a \in 0..3 THEN "play_hand"
    ELSE IF a = 4 THEN "play_hold"
    ELSE IF a \in 5..10 THEN "merge"
    ELSE IF a \in 11..14 THEN "hold_card"
    ELSE IF a = 15 THEN "clear_stack"
    ELSE "none"

\* the fields a penalised step must leave alone
Board == <<hand, hold_slot, stack, next_card, current_turn, merges_this_turn, score>>

\* the stack is not empty and mask entries 0..4 are all false
NoPlayLegal == stack # <<>> /\ \A i \in 0..4 : ~action_masks[i]

\* a transition made by a call of step
StepCall == op # "init" /\ op' # "reset"

\* C1: outside a forced-clear state, a step with an action id whose mask entry
\* is false returns -0.1 and leaves hand, hold, stack, next_card, current_turn,
\* merges_this_turn and score unchanged.
C1_MaskedOffStepIsPenalisedNoOp ==
    [][ StepCall =>
        \/ NoPlayLegal
        \/ (reward' = PENALTY_INVALID_ACTION /\ UNCHANGED Board)
        \/ \A a \in DeclaredIds : action_masks[a] \/ ~Step(a) ]_vars

\* C1 witness: a penalised step was taken on a non-empty stack while a play was legal
C1_Witness ==
    /\ op = "invalid"
    /\ reward = PENALTY_INVALID_ACTION
    /\ stack # <<>>
    /\ ~NoPlayLegal
    /\ \E a \in DeclaredIds : ~action_masks[a]

\* the transition performs the operation of the band of the action id a (for
\* the clear id the forced clear counts as the clear)
PerformsBandOf(a) ==
    \/ op' = BandOf(a)
    \/ (a = ACTION_CLEAR_STACK /\ op' = "forced_clear")

\* C2 (as claimed): in every reachable state a step with an action id whose
\* mask entry is true is not penalised and performs the operation of its band.
C2_MaskedOnStepDoesItsBand ==
    [][ StepCall =>
        \A a \in DeclaredIds :
          \/ (reward' # PENALTY_INVALID_ACTION /\ PerformsBandOf(a))
          \/ ~action_masks[a]
          \/ ~Step(a) ]_vars

\* C2 (amended): a step with an action id whose mask entry is true is never
\* penalised; outside a forced-clear state it performs the operation of its
\* band, in a forced-clear state it performs the forced clear.
C2_MaskedOnStepIsAccepted ==
    [][ StepCall =>
        IF NoPlayLegal
        THEN \/ (reward' # PENALTY_INVALID_ACTION /\ op' = "forced_clear")
             \/ \A a \in DeclaredIds : ~action_masks[a] \/ ~Step(a)
        ELSE \A a \in DeclaredIds :
                \/ (reward' # PENALTY_INVALID_ACTION /\ op' = BandOf(a))
                \/ ~action_masks[a]
                \/ ~Step(a) ]_vars

\* C2 witness: a merge whose mask entry was true has been performed
C2_Witness ==
    /\ op = "merge"
    /\ reward = 0
    /\ merges_this_turn = 1

\* C3: when the stack is not empty and no play is legal, a step with any
\* action id returns the clear reward of the stack, empties the stack, adds 1
\* to current_turn and resets merges_this_turn; in every other state no forced
\* clear happens and the action goes to the handler of its band.
C3_ForcedClear ==
    [][ StepCall =>
        IF NoPlayLegal
        THEN \/ /\ op' = "forced_clear"
                /\ reward' = calculate_clear_reward(stack).reward
                /\ stack' = <<>>
                /\ current_turn' = current_turn + 1
                /\ merges_this_turn' = 0
             \/ \A a \in ActionIds : ~Step(a)
        ELSE \A a \in ActionIds :
                op' \in {BandOf(a), "invalid"} \/ ~Step(a) ]_vars

\* C3 witness: a forced clear has ended turn 1
C3_Witness ==
    /\ op = "forced_clear"
    /\ stack = <<>>
    /\ current_turn = 2
    /\ merges_this_turn = 0

\* the reward the clear reward law gives for the stack st
LawReward(st) ==
    LET z == Cardinality({ k \in DOMAIN st : st[k] = 0 })
        nonzero == { st[k] : k \in DOMAIN st } \ {0}
    IN  IF nonzero = {1, 2, 3, 4, 5} THEN REWARD_FULL_CHAIN * (2 ^ z) ELSE 0

\* C4: every clear, forced or voluntary, of a stack with z zeros returns
\* 1000 * 2^z when the non-zero values of the stack are exactly {1,..,5}, and
\* 0 otherwise.
C4_ClearRewardLaw ==
    [][ (op' \in {"forced_clear", "clear_stack"}) => reward' = LawReward(stack) ]_vars

\* C4 witness: the stack [0,1,2,3,4,5] has been cleared for 2000
C4_Witness ==
    /\ op \in {"forced_clear", "clear_stack"}
    /\ reward = 2 * REWARD_FULL_CHAIN

\* the number of cards of value 5 across hand, hold, next_card and stack
FivesOnBoard ==
    Cardinality({ k \in DOMAIN hand : hand[k] = 5 })
    + Cardinality({ k \in DOMAIN stack : stack[k] = 5 })
    + (IF hold_slot = 5 THEN 1 ELSE 0)
    + (IF next_card = 5 THEN 1 ELSE 0)

\* C5: after reset and after every step at most one card of value 5 exists
\* across hand, hold, next_card and stack.
C5_SingleFive == op # "init" => FivesOnBoard <= 1

\* C6: after reset and after every step the hand has exactly 4 slots, every
\* hand card is in 0..5 and next_card is a card in 0..5, never -1.
C6_HandShape ==
    op # "init" =>
        /\ Len(hand) = 4
        /\ \A k \in 1..Len(hand) : hand[k] \in 0..5
        /\ next_card \in 0..5

\* C6 witness: a merge has rewritten two hand slots and drawn a 0 or a 5 as
\* the new next_card
C6_Witness ==
    /\ op = "merge"
    /\ Len(hand) = 4
    /\ next_card \in {0, 5}

\* C7: the hold slot is empty (-1) or holds the value 0.
C7_HoldIsEmptyOrZero == hold_slot = NO_CARD \/ hold_slot = 0

\* C7 witness: a hold action has put a 0 into the hold slot
C7_Witness == op = "hold_card" /\ hold_slot = 0

\* a step that takes the stack from non-empty to empty
ClearsStack == stack # <<>> /\ stack' = <<>>

\* C8: across a step current_turn stays equal or grows by exactly 1; it grows
\* exactly in the steps that clear the stack, which are the forced clear and
\* action 15 on a non-empty stack; plays, merges, holds and penalised steps
\* leave it unchanged.
C8_TurnMonotonicity ==
    [][ StepCall =>
        /\ current_turn' \in {current_turn, current_turn + 1}
        /\ (current_turn' = current_turn + 1) <=> ClearsStack
        /\ ClearsStack <=> (op' \in {"forced_clear", "clear_stack"})
        /\ (op' = "forced_clear") <=> NoPlayLegal
        /\ (op' = "clear_stack") => Step(ACTION_CLEAR_STACK) ]_vars

\* C8 witness: action 15 has cleared a non-empty stack and the turn advanced
C8_Witness == op = "clear_stack" /\ current_turn = 2 /\ stack = <<>>

\* C9: merges_this_turn stays in 0..2, at most 2 merges succeed between two
\* clears, and outside a forced-clear state a merge attempted with
\* merges_this_turn = 2 returns -0.1 and leaves the hand unchanged.
C9_MergeCap ==
    [][ /\ merges_this_turn' \in 0..2
        /\ merges_succeeded' <= 2
        /\ (StepCall /\ merges_this_turn = 2 /\ ~NoPlayLegal)
           => \/ (reward' = PENALTY_INVALID_ACTION /\ hand' = hand)
              \/ \A a \in 5..10 : ~Step(a) ]_vars

\* C9 witness: two merges were made this turn, two equal cards are in the
\* hand again and the last step was penalised
C9_Witness ==
    /\ merges_this_turn = 2
    /\ merges_succeeded = 2
    /\ EligiblePairs # {}
    /\ op = "invalid"

C11_TerminationFlag ==
    (op \notin {"init", "reset"}) =>
        /\ terminated <=> (current_turn > 20)
        /\ truncated = FALSE

\* C11 witness: the forced clear that ended turn 20 returned terminated
C11_Witness ==
    /\ op = "forced_clear"
    /\ current_turn = 21
    /\ terminated

\* the action ids outside [0,16) a driver can submit
OutOfRangeIds == ActionIds \ DeclaredIds

\* C12: an action id outside [0,16) submitted to step is signalled as a hard
\* failure: no normal return of step, be it the -0.1 penalty or any other,
\* answers such an id.
C12_OutOfRangeIsHardFailure ==
    [][ StepCall => \A a \in OutOfRangeIds : ~Step(a) ]_vars

\* C13: in every state reachable after reset, step returns normally for every
\* action id in [0,16): no exception and no empty draw pool; and the reward
\* of a step is -0.1, 0 or 1000 * 2^z for some z >= 0.
C13_StepIsTotal ==
    /\ []((op # "init" /\ Stepped) => \A a \in DeclaredIds : ENABLED Step(a))
    /\ [][ StepCall =>
            /\ \/ reward' \in {PENALTY_INVALID_ACTION, 0}
               \/ \E z \in 0..Len(stack) : reward' = 10000 * (2 ^ z)
            /\ available_cards(hand', hold_slot', next_card, stack') # {} ]_vars

\* C13 witness: after the episode has terminated a step was answered with
\* the penalty, and the hold slot is empty so that action 4 is invalid
C13_Witness ==
    /\ terminated
    /\ op = "invalid"
    /\ hold_slot = NO_CARD
    /\ reward = PENALTY_INVALID_ACTION

\* C14: two runs that call reset with the same seed and then submit the same
\* action ids see the same draws, observations, rewards and flags; already
\* for the empty sequence of actions: every reset with a seed deals the hand
\* and next_card that the first reset with that seed dealt.
C14_SeededDeterminism ==
    [][ \A seed \in Seeds :
          (seeded_deals[seed] # NoDeal /\ reset(seed))
              => <<hand', next_card'>> = seeded_deals[seed] ]_vars

\* the fields of this instance and the generator its draws read
OwnState ==
    <<hand, hold_slot, next_card, stack, current_turn, merges_this_turn, score,
      last_clear_is_full_chain, last_clear_stacked_zeros, np_random,
      random_advance>>

\* C15: the calls of a second instance leave this instance's states, draws
\* and rewards as they would be without them: they change neither a field of
\* this instance nor the state of the generator this instance draws from.
C15_InstanceIsolation ==
    [][ (OtherReset \/ OtherStep) => UNCHANGED OwnState ]_vars

\* C16: after every step that clears the stack, forced or voluntary, the info
\* returned reports is_full_chain equal to whether the cleared stack was a
\* full chain and, when it was, stacked_zeros equal to the number of 0 cards
\* in the cleared stack.
C16_LastClearMetadata ==
    [][ (op' \in {"forced_clear", "clear_stack"}) =>
        LET was_full_chain == (ValuesOf(stack) \ {0}) = {1, 2, 3, 4, 5}
            info == get_info'
        IN  /\ info.is_full_chain = was_full_chain
            /\ was_full_chain => info.stacked_zeros = CountIn(stack, 0) ]_vars

\* the pair of hand indices the claim gives for the merge ids 5..10
ReferencePair(id) ==
    << <<0, 1>>, <<0, 2>>, <<0, 3>>, <<1, 2>>, <<1, 3>>, <<2, 3>> >>[id - 4]

\* the mask the claim describes
ReferenceMask ==
    [ id \in 0..15 |->
        IF id \in 0..3 THEN is_valid_play(hand[id + 1])
        ELSE IF id = 4 THEN is_valid_play(hold_slot)
        ELSE IF id \in 5..10
        THEN /\ merges_this_turn < 2
             /\ hand[ReferencePair(id)[1] + 1] = hand[ReferencePair(id)[2] + 1]
             /\ hand[ReferencePair(id)[1] + 1] \in {1, 2, 3, 4}
        ELSE IF id \in 11..14 THEN hand[id - 11 + 1] = 0
        ELSE stack # <<>> ]

\* C17: in every state after reset action_masks() equals the reference mask:
\* entries 0..3 are is_valid_play(hand[i]), entry 4 is is_valid_play(hold),
\* entries 5..10 are true iff merges_this_turn < 2 and the pair of the id
\* holds two equal hand values in {1,2,3,4}, entries 11..14 are hand[i] = 0
\* and entry 15 is true iff the stack is not empty.
C17_MaskIsReference == op # "init" => action_masks = ReferenceMask

\* C17 witness: the held 0 can be played onto a stack of zeros, one merge is
\* offered and another is not, and the clear is offered
C17_Witness ==
    /\ action_masks[4]
    /\ action_masks[15]
    /\ \E a \in 5..10 : action_masks[a]
    /\ \E a \in 5..10 : ~action_masks[a]

\* C18: the 16 action ids are partitioned into play-hand [0,4), play-hold
\* {4}, merge [5,11), hold [11,15) and clear {15}; the merge ids 5..10 map to
\* the pairs (0,1),(0,2),(0,3),(1,2),(1,3),(2,3) in that order, a merge step
\* acts on the pair of its id, and the id-to-pair and pair-to-id maps are
\* inverse bijections.
C18_ActionCodec ==
    [][ /\ ACTION_PLAY_HAND_OFFSET = 0 /\ ACTION_PLAY_HOLD = 4
        /\ ACTION_MERGE_OFFSET = 5 /\ ACTION_HOLD_CARD_OFFSET = 11
        /\ ACTION_CLEAR_STACK = 15 /\ NUM_ACTIONS = 16
        /\ MergeActionIds = 5..10
        /\ \A a \in 5..10 : action_to_merge_pair(a) = ReferencePair(a)
        /\ DOMAIN merge_pair_to_action = { ReferencePair(a) : a \in 5..10 }
        /\ \A a \in 5..10 : merge_pair_to_action[action_to_merge_pair(a)] = a
        /\ \A pair \in DOMAIN merge_pair_to_action :
              action_to_merge_pair(merge_pair_to_action[pair]) = pair
        /\ (op' = "merge") =>
              \A a \in 5..10 :
                 \/ /\ hand[ReferencePair(a)[1] + 1] = hand[ReferencePair(a)[2] + 1]
                    /\ hand'[ReferencePair(a)[1] + 1] \in
                          {hand[ReferencePair(a)[1] + 1] + 1, 4}
                    /\ hand'[ReferencePair(a)[2] + 1] = next_card
                    /\ \A k \in 1..4 :
                          (k - 1) \in { ReferencePair(a)[1], ReferencePair(a)[2] }
                          \/ hand'[k] = hand[k]
                 \/ ~Step(a) ]_vars

\* C18 witness: action 10 has merged the cards of hand slots 2 and 3 of the
\* hand [4,4,1,1]
C18_Witness ==
    /\ op = "merge"
    /\ merges_this_turn = 1
    /\ hand[1] = 4 /\ hand[2] = 4 /\ hand[3] = 2

\* C19: in every state after reset the observation has hand equal to the 4
\* raw hand values, hold = 0 if the hold slot is empty else 1, next =
\* next_card + 1, stack_top = 0 if the stack is empty else top + 1,
\* stacked_zeros = the number of 0s in the stack, remaining_turns =
\* MAX_TURNS - current_turn + 1 and remaining_merges = MAX_MERGES_PER_TURN -
\* merges_this_turn.
C19_ObservationEncoding ==
    op # "init" =>
        /\ Len(get_obs.hand) = 4
        /\ \A k \in 1..4 : get_obs.hand[k] = hand[k]
        /\ get_obs.hold = (IF hold_slot = 0 - 1 THEN 0 ELSE 1)
        /\ (get_obs.hold = 1) <=> (hold_slot = 0)
        /\ get_obs.next = next_card + 1
        /\ get_obs.next \in 1..6
        /\ get_obs.stack_top =
              (IF Len(stack) = 0 THEN 0 ELSE stack[Len(stack)] + 1)
        /\ get_obs.stacked_zeros = Cardinality({ k \in DOMAIN stack : stack[k] = 0 })
        /\ get_obs.remaining_turns = 20 - current_turn + 1
        /\ get_obs.remaining_merges = 2 - merges_this_turn

\* C19 witness: the episode has terminated holding a 0, with a card on the
\* stack and one merge used: hold is 1, stack_top is positive, remaining_turns
\* is 0 and remaining_merges is 1
C19_Witness ==
    /\ terminated
    /\ get_obs.hold = 1
    /\ get_obs.stack_top > 0
    /\ get_obs.remaining_turns = 0
    /\ get_obs.remaining_merges = 1

\* C20: reset called in any state (fresh instance, mid-episode or after
\* termination) yields 4 hand cards in 0..5, an empty hold slot, next_card in
\* 0..5, an empty stack, current_turn = 1, merges_this_turn = 0, score = 0
\* and cleared last-clear metadata, whatever the state before the call.
C20_ResetPostcondition ==
    [][ (op' = "reset") =>
        /\ Len(hand') = 4
        /\ \A k \in 1..4 : hand'[k] \in 0..5
        /\ hold_slot' = 0 - 1
        /\ next_card' \in 0..5
        /\ stack' = <<>>
        /\ current_turn' = 1
        /\ merges_this_turn' = 0
        /\ score' = 0
        /\ last_clear_is_full_chain' = FALSE
        /\ last_clear_stacked_zeros' = 0 ]_vars

\* C20 witness: a reset has dealt a hand with a 0 and a 5 in it
C20_Witness ==
    /\ op = "reset"
    /\ current_turn = 1
    /\ hold_slot = NO_CARD
    /\ \E k \in DOMAIN hand : hand[k] = 0
    /\ \E k \in DOMAIN hand : hand[k] = 5

\* C21: in every state after reset 1 <= current_turn <= MAX_TURNS (20), so
\* that the remaining_turns observation lies in the declared range
\* [0, MAX_TURNS], also when step is called after terminated was returned.
C21_TurnBound ==
    op # "init" =>
        /\ 1 <= current_turn
        /\ current_turn <= 20
        /\ get_obs.remaining_turns \in 0..20

\* the play validity rule of the claim for the card c on the stack st
ReferenceValidPlay(c, st) ==
    IF c = 0 - 1 THEN FALSE
    ELSE IF Len(st) = 0 THEN TRUE
    ELSE IF st[Len(st)] = 0 THEN TRUE
    ELSE IF c = 0 THEN FALSE
    ELSE c > st[Len(st)]

\* C22: for every stack and every candidate card c, is_valid_play(c) is false
\* if c is the absent-hold sentinel, true if the stack is empty, true if the
\* stack top is 0, false if the stack top is >= 1 and c = 0, and otherwise
\* true iff c > stack top.
C22_PlayValidity ==
    play_check # NoCheck =>
        play_check[2] = ReferenceValidPlay(play_check[1], stack)

\* C22 witness: a 0 was refused on a stack topped by a card >= 1
C22_Witness ==
    /\ play_check = <<0, FALSE>>
    /\ stack # <<>>
    /\ stack[Len(stack)] >= 1

\* C23: in a state that is not a forced-clear state, step(i) for i in 0..3
\* with a hand card hand[i] that is a valid play returns reward 0, appends the
\* old hand[i] to the stack, sets hand[i] to the old next_card, draws a new
\* next_card and leaves the other three hand slots, hold, current_turn,
\* merges_this_turn and score unchanged.
C23_PlayHandEffect ==
    [][ (StepCall /\ ~NoPlayLegal) =>
        \A i \in 0..3 :
           \/ ~ReferenceValidPlay(hand[i + 1], stack)
           \/ /\ reward' = 0
              /\ op' = "play_hand"
              /\ stack' = Append(stack, hand[i + 1])
              /\ hand'[i + 1] = next_card
              /\ \A k \in 1..4 : k = i + 1 \/ hand'[k] = hand[k]
              /\ next_card' \in 0..5
              /\ hold_slot' = hold_slot
              /\ current_turn' = current_turn
              /\ merges_this_turn' = merges_this_turn
              /\ score' = score
           \/ ~Step(i) ]_vars

\* C23 witness: the 2 of hand slot 1 was played onto the stack [1] and the
\* slot refilled with the 0 that was next_card
C23_Witness ==
    /\ op = "play_hand"
    /\ reward = 0
    /\ stack = <<1, 2>>
    /\ hand[1] = 5
    /\ hand[2] = 0

\* C24: in a state that is not a forced-clear state, step(4) with hold == 0
\* and the stack empty or topped by 0 returns reward 0, appends 0 to the stack,
\* empties hold and leaves hand, next_card, current_turn, merges_this_turn and
\* score unchanged; with hold empty or the stack top >= 1 it returns -0.1.
C24_PlayHoldEffect ==
    [][ (StepCall /\ ~NoPlayLegal) =>
        \/ /\ (hold_slot = 0 /\ (stack = <<>> \/ stack[Len(stack)] = 0)) =>
                  /\ reward' = 0
                  /\ op' = "play_hold"
                  /\ stack' = Append(stack, 0)
                  /\ hold_slot' = NO_CARD
                  /\ hand' = hand
                  /\ next_card' = next_card
                  /\ current_turn' = current_turn
                  /\ merges_this_turn' = merges_this_turn
                  /\ score' = score
           /\ (hold_slot = NO_CARD \/ (stack # <<>> /\ stack[Len(stack)] >= 1)) =>
                  reward' = PENALTY_INVALID_ACTION
        \/ ~Step(ACTION_PLAY_HOLD) ]_vars

\* C24 witness: the held 0 was played onto a stack topped by 0
C24_Witness ==
    /\ op = "play_hold"
    /\ reward = 0
    /\ hold_slot = NO_CARD
    /\ Len(stack) >= 2
    /\ stack[Len(stack)] = 0
    /\ stack[Len(stack) - 1] = 0

\* C25: in a state that is not a forced-clear state with merges_this_turn < 2,
\* a merge action for the pair (i,j), i < j, with hand[i] == hand[j] == v and
\* 1 <= v <= 4 returns reward 0, sets hand[i] to v+1 if v < 4 and to 4 if
\* v == 4, sets hand[j] to the old next_card, draws a new next_card, increments
\* merges_this_turn and leaves the other two hand slots, hold, stack,
\* current_turn and score unchanged; if the values differ or v is 0 or 5 it
\* returns -0.1.
C25_MergeEffect ==
    [][ (StepCall /\ ~NoPlayLegal) =>
        \A a \in 5..10 :
           LET i == ReferencePair(a)[1] + 1
               j == ReferencePair(a)[2] + 1
               v == hand[i]
           IN  \/ /\ (merges_this_turn < 2 /\ hand[j] = v /\ v \in 1..4) =>
                         /\ reward' = 0
                         /\ op' = "merge"
                         /\ hand'[i] = (IF v < 4 THEN v + 1 ELSE 4)
                         /\ hand'[i] # 5
                         /\ hand'[j] = next_card
                         /\ \A k \in 1..4 : k \in {i, j} \/ hand'[k] = hand[k]
                         /\ next_card' \in 0..5
                         /\ merges_this_turn' = merges_this_turn + 1
                         /\ hold_slot' = hold_slot
                         /\ stack' = stack
                         /\ current_turn' = current_turn
                         /\ score' = score
                  /\ (hand[j] # v \/ v \in {0, 5}) =>
                         reward' = PENALTY_INVALID_ACTION
               \/ ~Step(a) ]_vars

\* C25 witness: the two 4s of the deal [4,4,1,1] were merged into one 4 and the
\* second slot took the old next_card
C25_Witness ==
    /\ op = "merge"
    /\ reward = 0
    /\ merges_this_turn = 1
    /\ hand = <<4, 1, 1, 1>>

\* C26: in a state that is not a forced-clear state, step(11+i) succeeds iff
\* hand[i] == 0, whether hold is empty or already holds 0; on success it
\* returns reward 0, leaves hold == 0, sets hand[i] to the old next_card, draws
\* a new next_card and leaves the other hand slots, stack, current_turn,
\* merges_this_turn and score unchanged; if hand[i] != 0 it returns -0.1 with
\* hold unchanged.
C26_HoldEffect ==
    [][ (StepCall /\ ~NoPlayLegal) =>
        \A i \in 0..3 :
           \/ IF hand[i + 1] = 0
              THEN /\ reward' = 0
                   /\ op' = "hold_card"
                   /\ hold_slot' = 0
                   /\ hand'[i + 1] = next_card
                   /\ \A k \in 1..4 : k = i + 1 \/ hand'[k] = hand[k]
                   /\ next_card' \in 0..5
                   /\ stack' = stack
                   /\ current_turn' = current_turn
                   /\ merges_this_turn' = merges_this_turn
                   /\ score' = score
              ELSE /\ reward' = PENALTY_INVALID_ACTION
                   /\ hold_slot' = hold_slot
           \/ ~Step(11 + i) ]_vars

\* C26 witness: both 0s of the deal [5,5,0,0] went to hold in turn 1 with
\* nothing played, the second one overwriting the first
C26_Witness ==
    /\ op = "hold_card"
    /\ reward = 0
    /\ hold_slot = 0
    /\ hand[1] = 5 /\ hand[2] = 5 /\ hand[3] # 0 /\ hand[4] # 0
    /\ stack = <<>>
    /\ current_turn = 1

\* the effect the claim gives for a clear
ClearEffect ==
    /\ op' \in {"forced_clear", "clear_stack"}
    /\ stack' = <<>>
    /\ merges_this_turn' = 0
    /\ hand' = hand
    /\ hold_slot' = hold_slot
    /\ next_card' = next_card

\* C27: every clear (the forced one, or action 15 on a non-empty stack) leaves
\* the stack empty and merges_this_turn == 0 and leaves hand, hold and
\* next_card unchanged; every step that is not a clear leaves merges_this_turn
\* unchanged or increments it by 1; action 15 on an empty stack returns -0.1
\* and changes nothing.
C27_ClearEffect ==
    [][ StepCall =>
        /\ NoPlayLegal => ClearEffect
        /\ op' \in {"forced_clear", "clear_stack"} => ClearEffect
        /\ op' \notin {"forced_clear", "clear_stack"} =>
               merges_this_turn' \in {merges_this_turn, merges_this_turn + 1}
        /\ \/ NoPlayLegal
           \/ IF stack # <<>>
              THEN ClearEffect
              ELSE /\ reward' = PENALTY_INVALID_ACTION
                   /\ UNCHANGED <<hand, hold_slot, next_card, stack,
                                  current_turn, merges_this_turn, score,
                                  last_clear_is_full_chain,
                                  last_clear_stacked_zeros>>
           \/ ~Step(ACTION_CLEAR_STACK) ]_vars

\* C27 witness: in turn 1 the two 1s of the deal [4,4,1,1] were merged into a
\* 2, a card was played and action 15 cleared the stack: merges_this_turn is
\* back at 0
C27_Witness ==
    /\ op = "clear_stack"
    /\ current_turn = 2
    /\ merges_this_turn = 0
    /\ stack = <<>>
    /\ hand[1] = 4 /\ hand[2] = 4 /\ hand[3] = 2

\* C28: from a state with at most one 5 across hand, hold, next_card and
\* stack, every step leads to a state with at most one 5; a draw never returns
\* 5 while a 5 is on the board (hand, hold and stack as the handler left them,
\* the old next_card being in the hand by then), and a merge never produces
\* a 5.
C28_StepKeepsSingleFive ==
    [][ StepCall =>
        /\ FivesOnBoard <= 1 => FivesOnBoard' <= 1
        /\ (op' \in {"play_hand", "merge", "hold_card"} /\ next_card' = 5) =>
               /\ \A k \in 1..4 : hand'[k] # 5
               /\ hold_slot' # 5
               /\ \A k \in DOMAIN stack' : stack'[k] # 5
        /\ op' = "merge" =>
               \A k \in 1..4 : hand'[k] = 5 => (hand[k] = 5 \/ next_card = 5) ]_vars

\* C28 witness: a play from the hand drew a 5 as the new next_card, the only 5
\* on the board
C28_Witness ==
    /\ op = "play_hand"
    /\ next_card = 5
    /\ varied = 1
    /\ FivesOnBoard = 1

\* C29: in every reachable state the stack consists of zero or more 0 cards
\* followed by non-zero cards in strictly ascending order; every 0 lies below
\* every non-zero card, no rank 1..5 occurs twice and the stack holds at most
\* 5 non-zero cards.
C29_StackShape ==
    /\ \E n \in 0..Len(stack) :
          /\ \A k \in 1..n : stack[k] = 0
          /\ \A k \in (n + 1)..Len(stack) : stack[k] \in 1..5
          /\ \A k \in (n + 1)..(Len(stack) - 1) : stack[k] < stack[k + 1]
    /\ \A k, l \in DOMAIN stack : (stack[k] = 0 /\ stack[l] # 0) => k < l
    /\ \A k, l \in DOMAIN stack : (k # l /\ stack[k] # 0) => stack[k] # stack[l]
    /\ Cardinality({ k \in DOMAIN stack : stack[k] # 0 }) <= 5

\* C29 witness: a 0 at the bottom of the stack with the ranks 1, 2, 3 played
\* on top of it
C29_Witness ==
    stack = <<0, 1, 2, 3>>

\* C30: in every state reached by reset and steps action_masks() has at least
\* one true entry: all four play-from-hand entries are true when the stack is
\* empty, and the clear entry is true when it is not.
C30_NoDeadState ==
    op # "init" =>
        /\ \E a \in 0..15 : action_masks[a]
        /\ stack = <<>> => \A i \in 0..3 : action_masks[i]
        /\ stack # <<>> => action_masks[15]

\* C30 witness: a state whose only true mask entry is the clear entry
C30_Witness ==
    /\ op # "init"
    /\ action_masks[15]
    /\ \A a \in 0..14 : ~action_masks[a]

\* the stack holds a card of value 5
FiveInStack == \E k \in DOMAIN stack : stack[k] = 5

\* C31: in every reachable state whose stack contains a 5, the 5 is the top
\* card and no play from hand or hold is legal, and the next step performs the
\* forced clear for every action id; the dispatched clear handler never runs
\* on a stack with a 5 (hence never on a full chain), never returns a positive
\* reward and the last-clear full-chain flag is never true.
C31_FullChainIsForced ==
    /\ [](op # "init" =>
            /\ FiveInStack =>
                  /\ stack[Len(stack)] = 5
                  /\ \A i \in 0..4 : ~action_masks[i]
            /\ last_clear_is_full_chain = FALSE)
    /\ [][ StepCall =>
            /\ FiveInStack => op' = "forced_clear"
            /\ op' = "clear_stack" =>
                  /\ ~FiveInStack
                  /\ ~calculate_clear_reward(stack).is_full_chain
                  /\ reward' <= 0
                  /\ last_clear_is_full_chain' = FALSE ]_vars

\* C31 witness: the full chain 1..5 was cleared by the forced path, with its
\* reward, and the full-chain flag is still false
C31_Witness ==
    /\ op = "forced_clear"
    /\ reward = REWARD_FULL_CHAIN
    /\ stack = <<>>
    /\ last_clear_is_full_chain = FALSE

\* C32: in every reachable state the number of 0 cards in the stack, the
\* stacked_zeros observation, is at most HAND_SIZE + HOLD_SIZE = 5, the
\* maximum the observation space declares.
C32_StackedZerosBound ==
    op # "init" => get_obs.stacked_zeros <= HAND_SIZE + HOLD_SIZE

\* C33: once a step has returned terminated == true, every later step made
\* without a reset in between returns terminated == true too; current_turn
\* never decreases between resets.
C33_TerminationIsSticky ==
    [][ StepCall =>
        /\ terminated => terminated'
        /\ op # "init" => current_turn' >= current_turn ]_vars

\* C33 witness: a card was played from the hand by a step made after the
\* episode had terminated, and the step returned terminated == true
C33_Witness ==
    /\ terminated
    /\ op = "play_hand"
    /\ current_turn = MAX_TURNS + 1

\* C34: if the driver submits only action ids whose action_masks() entry is
\* true and a 0 is drawn only finitely often, the episode eventually reaches
\* current_turn > MAX_TURNS with step returning terminated == true; within a
\* turn at most 5 non-zero plays and 2 merges succeed.
C34_EpisodeTerminates ==
    /\ <>(terminated /\ current_turn > MAX_TURNS)
    /\ [](/\ Cardinality({ k \in DOMAIN stack : stack[k] # 0 }) <= 5
          /\ merges_this_turn <= 2
          /\ merges_succeeded <= 2)

\* C34 witness: the episode terminated by the clear that ended its last turn,
\* a turn in which two 1s had been merged into a 2
C34_Witness ==
    /\ terminated
    /\ current_turn = MAX_TURNS + 1
    /\ op \in {"clear_stack", "forced_clear"}
    /\ \E k \in 1..HAND_SIZE : hand[k] = 2

\* C35: for every interleaving of the GameServer's command handlers and
\* auto-play tasks, each env.step call made by perform_ai_action happens while
\* running is true and the episode is not terminated, with an action id whose
\* action_masks() entry is true in the engine state right before the call.
C35_ServerStepLegality ==
    server.checked # NoCheck =>
        /\ server.checked[1]
        /\ server.checked[2]
        /\ server.checked[3]

\* C36: in the legacy 11-action engine, for every action id in 0..10 whose
\* action_masks() entry is false, step(id) returns -0.1 and leaves hand,
\* stack, current_turn, merges_this_turn and score unchanged; the clear
\* (id 10) on an empty stack does not advance the turn.
C36_LegacyMaskedOffStepIsNoOp ==
    [][ (op # "init" /\ op' # "reset") =>
        \A a \in 0..10 :
           \/ legacy_action_masks[a]
           \/ /\ reward' = PENALTY_INVALID_ACTION
              /\ UNCHANGED <<hand, stack, current_turn, merges_this_turn, score>>
           \/ ~legacy_step(a) ]_vars

====
